---------------------------- MODULE Spec2Model ----------------------------
(***************************************************************************)
(* Model of bup's garbage collector (cmd/bloom-gc-cmd.py) and of the read  *)
(* side of its virtual file system (lib/bup/vfs.py).                       *)
(*                                                                         *)
(* Five state machines share the module:                                   *)
(*   Spec / SpecRerun  the gc driver, find_live_objects and sweep          *)
(*   SpecResolve       Node.lresolve / resolve / try_resolve, dereference  *)
(*   SpecDeref         the same, on the symlink of a saved tree            *)
(*   SpecNodes         Node.subs / sub / metadata / release on a Dir       *)
(*   SpecCommits       CommitDir._mksubs                                   *)
(*   SpecRead          _chunkiter / _ChunkReader / _FileReader             *)
(***************************************************************************)
EXTENDS Integers, Sequences, FiniteSets, TLC

(***************************************************************************)
(* Bounds of the model.                                                    *)
(***************************************************************************)
\* object hashes are 1..NumObjs
NumObjs == 2
\* packs in the pack directory when gc starts
MaxPacks == 2

\* opt.threshold is validated against 0..100 (bloom-gc-cmd.py line 153)
MaxThreshold == 100

Objs == 1..NumObjs
Thresholds == 0..MaxThreshold

(***************************************************************************)
(* Packs.  A pack index is its sorted table of object hashes               *)
(* (idx.shatable); a pack is named after that table, so the table stands   *)
(* for the pack's name as well.  A file in the pack directory is the .idx  *)
(* or the .pack of one pack.                                               *)
(***************************************************************************)
NoPack == <<>>

\* the sorted enumeration of a set of objects
RECURSIVE SetToIdx(_)
SetToIdx(S) ==
    IF S = {} THEN <<>>
    ELSE LET m == CHOOSE x \in S : \A y \in S : x <= y
         IN <<m>> \o SetToIdx(S \ {m})

\* the packs a repository written by bup save can hold: no object twice
SavedPacks == { SetToIdx(S) : S \in (SUBSET Objs) \ {{}} }

IdxPath(p) == [pack |-> p, ext |-> "idx"]
PackPath(p) == [pack |-> p, ext |-> "pack"]

\* glob.glob(os.path.join(dir, '*.idx'))
glob_idx(fs) == { f.pack : f \in { g \in fs : g.ext = "idx" } }

\* a pack whose objects can be retrieved: index and data are both there
PacksOnDisk(fs) == { p \in glob_idx(fs) : PackPath(p) \in fs }

RECURSIVE SumLen(_)
SumLen(P) ==
    IF P = {} THEN 0
    ELSE LET p == CHOOSE x \in P : TRUE IN Len(p) + SumLen(P \ {p})

count_objects(fs) == SumLen(glob_idx(fs))

Contains(p, o) == \E i \in 1..Len(p) : p[i] = o

\* the objects that can be read back from the pack directory
Retrievable(fs) == { o \in Objs : \E p \in PacksOnDisk(fs) : Contains(p, o) }


(***************************************************************************)
(* State of a gc run.                                                      *)
(***************************************************************************)
VARIABLES
    threshold,      \* opt.threshold
    reachable,      \* the object hashes walk_object yields from the refs
    files,          \* the .idx and .pack files in objects/pack
    midx,           \* some *.midx file exists in objects/pack
    bupbloom,       \* objects/pack/bup.bloom exists
    reflog,         \* "full" or "expired"
    pc,             \* the driver's position
    run,            \* 1 for the first gc run, 2 for the run after it
    first,          \* how the first run ended, once a second one started
    existing_count, \* count_objects() at the start of the run
    tmpbloom,       \* the tmp-gc-*.bloom file: "none", "open" or "removed"
    live,           \* live_objects: the hashes the BloomSet answers yes for
    live1,          \* the live set of the first run
    sources,        \* the packs the sweep's glob listed
    todo,           \* the packs of that list not yet visited
    cur,            \* the pack being rewritten (idx_name), or NoPack
    idx_i,          \* the rewrite loop's position in cur's table, 1-based
    stale_files,    \* ns.stale_files
    ui,             \* remove_stale_files' position in ns.stale_files
    ret,            \* where remove_stale_files returns to
    prefix,         \* new_pack_prefix of the running remove_stale_files
    wpack,          \* the table of the pack the writer has open
    finalized,      \* the packs the writer finished in this run
    unlinked,       \* the paths remove_stale_files unlinked in this run
    marked,         \* the packs appended to ns.stale_files in this run
    wrote,          \* per source pack, the writer.write calls made for it
    saved_errors,   \* helpers.saved_errors is not empty, as line 184 finds it
    status          \* the exit status lines 184-186 decide; "none" while the
                    \* run goes on, or when an exception ended it

gcvars == <<threshold, reachable, files, midx, bupbloom, reflog, pc, run,
            first, existing_count, tmpbloom, live, live1, sources, todo, cur,
            idx_i, stale_files, ui, ret, prefix, wpack, finalized, unlinked,
            marked, wrote, saved_errors, status>>

\* State of a path resolution (Node.lresolve, Node.resolve).
VARIABLES
    target,     \* per symlink, the text readlink() returns
    vpc,        \* "idle", "lresolve" (in _lresolve), "value" (returning), "done"
    vop,        \* the operation called: "lresolve", "resolve", "try_resolve"
    vpath,      \* the path it was called with
    vphase,     \* resolve: 1 in lresolve(path), 2 in lresolve('.')
    vfirst,     \* resolve, try_resolve: the node lresolve(path) returned
    vraised,    \* the exception raised in the operation, "none" if none was
    vagain,     \* the node resolve(vpath) returned and the path it is asked
                \* to resolve next, NoAgain before that
    vnode,      \* the node whose _lresolve runs, or the node being returned
    vparts,     \* the parts that _lresolve was given
    vstack,     \* the dereference() calls in progress, innermost last
    symrefs,    \* the global _symrefs
    derefs,     \* dereference() calls that passed line 373 in this operation
    depth,      \* frames on the interpreter's stack
    vresult     \* "none", "node" (vnode was returned) or the exception raised

resvars == <<target, vpc, vop, vpath, vphase, vfirst, vraised, vagain, vnode,
             vparts, vstack, symrefs, derefs, depth, vresult>>

\* State of a Dir and of one of its children (Node._subs, Node._metadata,
\* Dir._bupm), with the _mksubs() runs counted.
VARIABLES
    nd_tree,    \* the Dir's tree object: the number of entries it exposes
                \* (files named 1..kids) and whether it has a .bupm entry
    dir,        \* the Dir: _subs, _bupm set, _metadata set, and the runs of
                \* its _mksubs since it was made or last released
    child,      \* the File named 1 that the Dir made last: whether there is
                \* one, _subs, _metadata set, and the runs of its _mksubs
    nd_last     \* the last call: the node it was made on and the method

nodevars == <<nd_tree, dir, child, nd_last>>

\* State of a CommitDir and of its expansion (CommitDir._mksubs).
VARIABLES
    cd_parents,   \* the commit graph: per commit, its parents
    cd_list_refs, \* git.list_refs(): the commit of each ref, in list order
    cd_pc,        \* "idle", "refs" (at the for over refs), "revs" (at the
                  \* for over revs), "done"
    cd_refs,      \* the refs still to come
    cd_revs,      \* the commits of this ref's rev_list still to come
    cd_subs       \* CommitDir._subs: per container name, that CommitList's
                  \* commits, a map from dirname to commit

cdvars == <<cd_parents, cd_list_refs, cd_pc, cd_refs, cd_revs, cd_subs>>

vfsvars == <<resvars, nodevars, cdvars>>

\* State of a file reader (_FileReader) and the file it was opened on.
VARIABLES
    rd_file,    \* the File: bupmode CHUNKED (isdir) with its split tree, or
                \* NORMAL with its blob
    rd_ofs,     \* _FileReader.ofs
    rd_reader,  \* _FileReader.reader: NoReader or a _ChunkReader
    rd_last     \* the last read() call: offset before, count, bytes returned

rdvars == <<rd_file, rd_ofs, rd_reader, rd_last>>

(***************************************************************************)
(* sweep's per-pack policy.                                                *)
(***************************************************************************)
\* lines 81-85: the entries of the table the live set answers yes for
idx_live_count(p, L) == Cardinality({ i \in 1..Len(p) : p[i] \in L })

\* line 97: live_frac > ((100 - opt.threshold) / 100.0), with
\* live_frac = idx_live_count / float(len(idx)).  Both sides are correctly
\* rounded quotients of integers, so for any index that fits in memory the
\* comparison of the doubles is the comparison of the exact fractions.
live_frac_at_least(lc, n, t) == 100 * lc >= (100 - t) * n

live_frac_over(lc, n, t) == 100 * lc > (100 - t) * n

sweep_policy_one_is_none(lc, n, t) ==
    IF lc <= 1 THEN "delete"
    ELSE IF live_frac_over(lc, n, t) THEN "keep"
    ELSE "rewrite"

\* lines 88-114: what sweep does with a pack
sweep_policy(lc, n, t) ==
    IF lc = 0 THEN "delete"
    ELSE IF live_frac_over(lc, n, t) THEN "keep"
    ELSE "rewrite"

mark_stale_forgotten(stale, p) == stale

\* lines 92-93 and 113-114
mark_stale(stale, p) == stale \o <<IdxPath(p), PackPath(p)>>

(***************************************************************************)
(* The pack writer (git.PackWriter).  write() appends an object to the     *)
(* open pack without looking for duplicates; when a pack is finished it is *)
(* renamed to pack-<sha1 of its sorted hash table>.{pack,idx}, replacing   *)
(* any file of that name, and on_pack_finish is called with that prefix.   *)
(***************************************************************************)
writer_write(w, o) ==
    LET k == Cardinality({ i \in 1..Len(w) : w[i] <= o })
    IN SubSeq(w, 1, k) \o <<o>> \o SubSeq(w, k + 1, Len(w))

writer_finish(fs, w) == fs \cup {IdxPath(w), PackPath(w)}

run_midx_default == TRUE

\* line 70: the writer is made with run_midx=False
run_midx == FALSE

\* a writer made with run_midx regenerates the midx files and the bloom
\* filter each time it has finished a pack; m tells whether there is one
auto_midx(m) == IF run_midx THEN TRUE ELSE m

(***************************************************************************)
(* Initial states: any threshold the option check lets through, a pack     *)
(* directory of up to MaxPacks packs, refs whose objects are all stored.   *)
(* Hashes are opaque and every step treats them alike, so the reachable    *)
(* ones are numbered first: reachable is 1..k.                             *)
(***************************************************************************)
PackDirs == { D \in SUBSET SavedPacks : Cardinality(D) <= MaxPacks }

FilesOf(D) == { IdxPath(p) : p \in D } \cup { PackPath(p) : p \in D }

LocalsIdle ==
    /\ sources = {}
    /\ todo = {}
    /\ cur = NoPack
    /\ idx_i = 1
    /\ stale_files = <<>>
    /\ ui = 1
    /\ ret = "none"
    /\ prefix = NoPack
    /\ wpack = <<>>

GcInit ==
    /\ threshold \in Thresholds
    /\ \E D \in PackDirs :
          /\ files = FilesOf(D)
          /\ reachable \in { 1..k : k \in 0..NumObjs }
          /\ reachable \subseteq Retrievable(FilesOf(D))
    /\ midx \in BOOLEAN
    /\ bupbloom \in BOOLEAN
    /\ reflog = "full"
    /\ pc = "start"
    /\ run = 1
    /\ first = "none"
    /\ existing_count = 0
    /\ tmpbloom = "none"
    /\ live = {}
    /\ live1 = {}
    /\ LocalsIdle
    /\ finalized = {}
    /\ unlinked = {}
    /\ marked = {}
    /\ wrote = [p \in {} |-> 0]
    /\ saved_errors = FALSE
    /\ status = "none"

(***************************************************************************)
(* The gc driver (lines 158-186).                                          *)
(***************************************************************************)
LocalsReset ==
    /\ sources' = {}
    /\ todo' = {}
    /\ cur' = NoPack
    /\ idx_i' = 1
    /\ stale_files' = <<>>
    /\ ui' = 1
    /\ ret' = "none"
    /\ prefix' = NoPack
    /\ wpack' = <<>>

LocalsSame ==
    UNCHANGED <<sources, todo, cur, idx_i, stale_files, ui, ret, prefix,
                wpack>>

HistorySame == UNCHANGED <<finalized, unlinked, marked, wrote>>

\* the gc run does not touch its options and refs, nor the vfs
RunInputsSame ==
    UNCHANGED <<threshold, reachable, run, first, live1, vfsvars, rdvars>>

\* ... and it is not at lines 184-186
InputsSame ==
    /\ RunInputsSame
    /\ UNCHANGED <<saved_errors, status>>

\* lines 184-186: the errors the library calls saved decide the exit status
Exit ==
    \E se \in BOOLEAN :
        /\ saved_errors' = se
        /\ status' = IF se THEN 1 ELSE 0

\* lines 180-182, reached by an exception or an interrupt inside the try
\* block: the BloomSet is closed and unlinked and the process ends
RaiseInTry ==
    /\ tmpbloom' = "removed"
    /\ pc' = "aborted"
    /\ LocalsReset

after_count_unchecked(n) == "find_live"

\* lines 162-166
after_count(n) == IF n = 0 THEN "done" ELSE "find_live"

\* lines 159-165, and lines 184-186 when there is nothing to collect
CountObjects ==
    /\ pc = "start"
    /\ existing_count' = count_objects(files)
    /\ pc' = after_count(count_objects(files))
    /\ IF pc' = "done" THEN Exit ELSE UNCHANGED <<saved_errors, status>>
    /\ UNCHANGED <<files, midx, bupbloom, reflog, tmpbloom, live>>
    /\ RunInputsSame /\ LocalsSame /\ HistorySame

\* lines 35-40: mkstemp and bloom.create
FindLiveCreate ==
    /\ pc = "find_live"
    /\ tmpbloom' = "open"
    /\ pc' = "walk"
    /\ UNCHANGED <<files, midx, bupbloom, reflog, existing_count, live>>
    /\ InputsSame /\ LocalsSame /\ HistorySame

\* lines 41-51: every reachable hash is added; the filter answers yes for
\* them and for whatever false positives it has
FindLiveWalk ==
    /\ pc = "walk"
    /\ \E L \in SUBSET Objs :
          /\ reachable \subseteq L
          /\ live' = L
    /\ pc' = "clear_midx"
    /\ UNCHANGED <<files, midx, bupbloom, reflog, existing_count, tmpbloom>>
    /\ InputsSame /\ LocalsSame /\ HistorySame

\* lines 41-47 raising (an unreadable object, an interrupt): line 166 is
\* outside the try block, so nothing closes or unlinks the file
FindLiveFail ==
    /\ pc = "walk"
    /\ pc' = "failed"
    /\ UNCHANGED <<files, midx, bupbloom, reflog, existing_count, tmpbloom,
                   live>>
    /\ InputsSame /\ LocalsSame /\ HistorySame

\* line 171
ClearMidx ==
    /\ pc = "clear_midx"
    /\ midx' = FALSE
    /\ pc' = "clear_bloom"
    /\ UNCHANGED <<files, bupbloom, reflog, existing_count, tmpbloom, live>>
    /\ InputsSame /\ LocalsSame /\ HistorySame

\* line 173
ClearBloom ==
    /\ pc = "clear_bloom"
    /\ bupbloom' = FALSE
    /\ pc' = "expire"
    /\ UNCHANGED <<files, midx, reflog, existing_count, tmpbloom, live>>
    /\ InputsSame /\ LocalsSame /\ HistorySame

ExpireReflog_not_run ==
    /\ pc = "expire"
    /\ pc' = "sweep"
    /\ UNCHANGED <<files, midx, bupbloom, reflog, existing_count, tmpbloom,
                   live>>
    /\ InputsSame /\ LocalsSame /\ HistorySame

\* lines 175-177
ExpireReflog ==
    /\ pc = "expire"
    /\ reflog' = "expired"
    /\ pc' = "sweep"
    /\ UNCHANGED <<files, midx, bupbloom, existing_count, tmpbloom, live>>
    /\ InputsSame /\ LocalsSame /\ HistorySame

TryPcs == {"clear_midx", "clear_bloom", "expire", "sweep", "loop", "rewrite",
           "unlink", "close", "final"}

\* an exception or KeyboardInterrupt anywhere inside the try block
Interrupt ==
    /\ pc \in TryPcs
    /\ RaiseInTry
    /\ UNCHANGED <<files, midx, bupbloom, reflog, existing_count, live>>
    /\ InputsSame /\ HistorySame

\* sweep returned; lines 180-182 on the normal path, then lines 184-186
Finish ==
    /\ pc = "finish"
    /\ tmpbloom' = "removed"
    /\ pc' = "done"
    /\ Exit
    /\ LocalsReset
    /\ UNCHANGED <<files, midx, bupbloom, reflog, existing_count, live>>
    /\ RunInputsSame /\ HistorySame

(***************************************************************************)
(* sweep (lines 54-133).                                                   *)
(***************************************************************************)
DriverSame ==
    UNCHANGED <<midx, bupbloom, reflog, existing_count, live>>

\* lines 57-75: the stale buffer, the writer, and the list glob returns
SweepInit ==
    /\ pc = "sweep"
    /\ stale_files' = <<>>
    /\ sources' = glob_idx(files)
    /\ todo' = glob_idx(files)
    /\ wrote' = [p \in glob_idx(files) |-> 0]
    /\ wpack' = <<>>
    /\ pc' = "loop"
    /\ UNCHANGED <<files, tmpbloom, cur, idx_i, ui, ret, prefix, finalized,
                   unlinked, marked>>
    /\ DriverSame /\ InputsSame

\* lines 75-105: the next index of the list, in whatever order glob gave
SweepPack ==
    /\ pc = "loop"
    /\ \E p \in todo :
          /\ todo' = todo \ {p}
          /\ IF IdxPath(p) \notin files
             THEN \* git.open_idx raises
                  /\ RaiseInTry
                  /\ UNCHANGED <<marked>>
             ELSE LET d == sweep_policy(idx_live_count(p, live), Len(p),
                                        threshold)
                  IN /\ stale_files' = IF d = "delete"
                                       THEN mark_stale(stale_files, p)
                                       ELSE stale_files
                     /\ marked' = IF d = "delete" THEN marked \cup {p}
                                  ELSE marked
                     /\ cur' = IF d = "rewrite" THEN p ELSE NoPack
                     /\ pc' = IF d = "rewrite" THEN "rewrite" ELSE "loop"
                     /\ UNCHANGED <<tmpbloom, sources, idx_i, ui, ret,
                                    prefix, wpack>>
    /\ UNCHANGED <<files, finalized, unlinked, wrote>>
    /\ DriverSame /\ InputsSame

\* lines 106-111: one entry of the table; a live one is written, and the
\* writer may find the pack full and finish it (breakpoint), which calls
\* remove_stale_files(new_pack_prefix) before write() returns
RewriteObj ==
    /\ pc = "rewrite"
    /\ idx_i <= Len(cur)
    /\ idx_i' = idx_i + 1
    /\ IF cur[idx_i] \notin live
       THEN UNCHANGED <<files, wpack, wrote, finalized, prefix, ui, ret, pc,
                        midx, bupbloom>>
       ELSE /\ wrote' = [wrote EXCEPT ![cur] = @ + 1]
            /\ \E full \in BOOLEAN :
                  LET w == writer_write(wpack, cur[idx_i])
                  IN IF full
                     THEN /\ files' = writer_finish(files, w)
                          /\ midx' = auto_midx(midx)
                          /\ bupbloom' = auto_midx(bupbloom)
                          /\ finalized' = finalized \cup {w}
                          /\ wpack' = <<>>
                          /\ prefix' = w
                          /\ ui' = 1
                          /\ ret' = "rewrite"
                          /\ pc' = "unlink"
                     ELSE /\ wpack' = w
                          /\ UNCHANGED <<files, finalized, prefix, ui, ret,
                                         pc, midx, bupbloom>>
    /\ UNCHANGED <<tmpbloom, sources, todo, cur, stale_files, unlinked,
                   marked>>
    /\ UNCHANGED <<reflog, existing_count, live>>
    /\ InputsSame

\* lines 113-114: the whole table was visited
RewriteDone ==
    /\ pc = "rewrite"
    /\ idx_i > Len(cur)
    /\ stale_files' = mark_stale(stale_files, cur)
    /\ marked' = marked \cup {cur}
    /\ cur' = NoPack
    /\ idx_i' = 1
    /\ pc' = "loop"
    /\ UNCHANGED <<files, tmpbloom, sources, todo, ui, ret, prefix, wpack,
                   finalized, unlinked, wrote>>
    /\ DriverSame /\ InputsSame

\* lines 62-65: one round of remove_stale_files' loop
UnlinkStale ==
    /\ pc = "unlink"
    /\ ui <= Len(stale_files)
    /\ IF stale_files[ui] \notin files
       THEN \* os.unlink raises
            /\ RaiseInTry
            /\ UNCHANGED <<files, unlinked>>
       ELSE /\ files' = files \ {stale_files[ui]}
            /\ unlinked' = unlinked \cup {stale_files[ui]}
            /\ ui' = ui + 1
            /\ UNCHANGED <<tmpbloom, pc, sources, todo, cur, idx_i,
                           stale_files, ret, prefix, wpack>>
    /\ UNCHANGED <<finalized, marked, wrote>>
    /\ DriverSame /\ InputsSame

stale_files_kept(stale) == stale

\* line 66: ns.stale_files = []
stale_files_reset(stale) == <<>>

\* line 66, and the return to the caller
RemoveStaleDone ==
    /\ pc = "unlink"
    /\ ui > Len(stale_files)
    /\ stale_files' = stale_files_reset(stale_files)
    /\ ui' = 1
    /\ prefix' = NoPack
    /\ pc' = ret
    /\ ret' = "none"
    /\ UNCHANGED <<files, tmpbloom, sources, todo, cur, idx_i, wpack>>
    /\ HistorySame /\ DriverSame /\ InputsSame

\* lines 120-123, once the list is exhausted
SweepAsserts ==
    /\ pc = "loop"
    /\ todo = {}
    /\ IF bupbloom \/ midx
       THEN RaiseInTry
       ELSE /\ pc' = "close"
            /\ UNCHANGED tmpbloom
            /\ LocalsSame
    /\ UNCHANGED files
    /\ HistorySame /\ DriverSame /\ InputsSame

\* line 127: a pack that is open is finished, and on_pack_finish runs
WriterClose ==
    /\ pc = "close"
    /\ IF wpack # <<>>
       THEN /\ files' = writer_finish(files, wpack)
            /\ midx' = auto_midx(midx)
            /\ bupbloom' = auto_midx(bupbloom)
            /\ finalized' = finalized \cup {wpack}
            /\ wpack' = <<>>
            /\ prefix' = wpack
            /\ ui' = 1
            /\ ret' = "final"
            /\ pc' = "unlink"
       ELSE /\ pc' = "final"
            /\ UNCHANGED <<files, finalized, wpack, prefix, ui, ret, midx,
                           bupbloom>>
    /\ UNCHANGED <<tmpbloom, sources, todo, cur, idx_i, stale_files,
                   unlinked, marked, wrote>>
    /\ UNCHANGED <<reflog, existing_count, live>>
    /\ InputsSame

\* line 128: remove_stale_files(None)
FinalRemove ==
    /\ pc = "final"
    /\ prefix' = NoPack
    /\ ui' = 1
    /\ ret' = "finish"
    /\ pc' = "unlink"
    /\ UNCHANGED <<files, tmpbloom, sources, todo, cur, idx_i, stale_files,
                   wpack>>
    /\ HistorySame /\ DriverSame /\ InputsSame

\* gc is started again on the pack directory the first run left behind
RunAgain ==
    /\ run = 1
    /\ pc \in {"done", "aborted"}
    /\ existing_count > 0
    /\ run' = 2
    /\ first' = pc
    /\ live1' = live
    /\ pc' = "start"
    /\ existing_count' = 0
    /\ tmpbloom' = "none"
    /\ live' = {}
    /\ finalized' = {}
    /\ unlinked' = {}
    /\ marked' = {}
    /\ wrote' = [p \in {} |-> 0]
    /\ saved_errors' = FALSE
    /\ status' = "none"
    /\ LocalsReset
    /\ UNCHANGED <<threshold, reachable, files, midx, bupbloom, reflog,
                   vfsvars, rdvars>>

GcNext ==
    \/ CountObjects
    \/ FindLiveCreate
    \/ FindLiveWalk
    \/ FindLiveFail
    \/ ClearMidx
    \/ ClearBloom
    \/ ExpireReflog
    \/ SweepInit
    \/ SweepPack
    \/ RewriteObj
    \/ RewriteDone
    \/ UnlinkStale
    \/ RemoveStaleDone
    \/ SweepAsserts
    \/ WriterClose
    \/ FinalRemove
    \/ Finish
    \/ Interrupt

(***************************************************************************)
(* The virtual file system: path resolution (vfs.py lines 163-388).        *)
(*                                                                         *)
(* A path or a link target is a text: a sequence of tokens, each "/" or a  *)
(* name (a maximal run of other characters).  The tree is                  *)
(*     /            the top node                                           *)
(*     /a           a directory                                            *)
(*     /a/b, /a/c   symlinks, their targets chosen per repository          *)
(*     /a/f         a file                                                 *)
(*     /.commit             the CommitDir                                  *)
(*     /.commit/aa          a CommitList                                   *)
(*     /.commit/aa/c1       a commit's Dir, holding the symlink l and the  *)
(*                          file g                                         *)
(*     /.commit/aa/c2       another commit's Dir, holding a file g         *)
(***************************************************************************)
NoNode == "none"

Nodes == {"/", "/a", "/a/b", "/a/c", "/a/f",
          "/.commit", "/.commit/aa", "/.commit/aa/c1", "/.commit/aa/c1/l",
          "/.commit/aa/c1/g", "/.commit/aa/c2", "/.commit/aa/c2/g"}

NodeInfo ==
    [n \in Nodes |->
        CASE n = "/"    -> [parent |-> NoNode, name |-> "/", kind |-> "Dir"]
          [] n = "/a"   -> [parent |-> "/",  name |-> "a", kind |-> "Dir"]
          [] n = "/a/b" -> [parent |-> "/a", name |-> "b", kind |-> "Symlink"]
          [] n = "/a/c" -> [parent |-> "/a", name |-> "c", kind |-> "Symlink"]
          [] n = "/a/f" -> [parent |-> "/a", name |-> "f", kind |-> "File"]
          [] n = "/.commit" ->
                [parent |-> "/", name |-> ".commit", kind |-> "CommitDir"]
          [] n = "/.commit/aa" ->
                [parent |-> "/.commit", name |-> "aa", kind |-> "CommitList"]
          [] n = "/.commit/aa/c1" ->
                [parent |-> "/.commit/aa", name |-> "c1", kind |-> "Dir"]
          [] n = "/.commit/aa/c1/l" ->
                [parent |-> "/.commit/aa/c1", name |-> "l", kind |-> "Symlink"]
          [] n = "/.commit/aa/c1/g" ->
                [parent |-> "/.commit/aa/c1", name |-> "g", kind |-> "File"]
          [] n = "/.commit/aa/c2" ->
                [parent |-> "/.commit/aa", name |-> "c2", kind |-> "Dir"]
          [] n = "/.commit/aa/c2/g" ->
                [parent |-> "/.commit/aa/c2", name |-> "g", kind |-> "File"]]

Symlinks == { n \in Nodes : NodeInfo[n].kind = "Symlink" }

\* the link targets a repository may store
Targets == { <<"c">>, <<"/", "a", "/", "b">>, <<"f">>, <<"b", "/", "f">>,
             <<"..", "/", "a", "/", "c">>, <<"x">>, <<".">> }

\* the link targets a saved tree may hold
CommitTargets ==
    { <<"g">>, <<"/", "g">>, <<"..", "/", "c1", "/", "g">>,
      <<"..", "/", "c2", "/", "g">>, <<"..", "/", "..">>,
      <<"/", "..", "/", "c2">>, <<"x">> }

\* the paths the callers ask for
Paths == { <<"/", "a", "/", "b">>, <<"a", "/", "c">>, <<"a", "/", "f">>,
           <<"a", "/", "b", "/">>, <<"a", "/", "/", "b", "/", "f">>, <<>>,
           <<".commit", "/", "aa", "/", "c1", "/", "l">> }

\* Node.sub (lines 208-215): the child called name, NoNode when sub raises
\* NoSuchFile.  Files and symlinks keep Node._mksubs: no children.
sub(n, name) ==
    LET kids == { m \in Nodes : NodeInfo[m].parent = n
                                /\ NodeInfo[m].name = name }
    IN IF kids = {} THEN NoNode ELSE CHOOSE m \in kids : TRUE

\* Node.top (lines 217-222)
RECURSIVE top(_)
top(n) == IF NodeInfo[n].parent # NoNode THEN top(NodeInfo[n].parent) ELSE n

\* Node.fs_top (lines 224-232)
RECURSIVE fs_top(_)
fs_top(n) ==
    IF NodeInfo[n].parent # NoNode
       /\ NodeInfo[NodeInfo[n].parent].kind # "CommitList"
    THEN fs_top(NodeInfo[n].parent)
    ELSE n

\* the symlinks of a saved tree: the ones below a commit's Dir
CommitSymlinks ==
    { n \in Symlinks : NodeInfo[fs_top(n)].parent # NoNode }

\* re.split(r'/+', text): the names between runs of "/"; a text that
\* starts or ends with "/" gives an empty first or last part
RECURSIVE DropSlashes(_)
DropSlashes(t) ==
    IF t # <<>> /\ Head(t) = "/" THEN DropSlashes(Tail(t)) ELSE t

RECURSIVE re_split(_, _)
re_split(t, name) ==
    IF t = <<>> THEN <<name>>
    ELSE IF Head(t) = "/" THEN <<name>> \o re_split(DropSlashes(t), "")
    ELSE re_split(Tail(t), Head(t))

\* lines 265-267: the parts of path, "." for an empty path or last part
path_parts(t) ==
    LET parts == IF t = <<>> THEN <<".">> ELSE re_split(t, "")
    IN IF parts[Len(parts)] = ""
       THEN [parts EXCEPT ![Len(parts)] = "."]
       ELSE parts

\* lines 256-264: the node lresolve starts from, and the path left
lresolve_start(self, path, stay_inside_fs) ==
    IF path # <<>> /\ Head(path) = "/"
    THEN IF stay_inside_fs THEN fs_top(self) ELSE top(self)
    ELSE self

lresolve_path(path) ==
    IF path # <<>> /\ Head(path) = "/" THEN Tail(path) ELSE path

\* dereference raises TooManySymlinks when _symrefs > 100 (line 373)
MaxSymlinks == 100

\* the interpreter's recursion limit: the call that would need more frames
\* raises RuntimeError (maximum recursion depth exceeded)
RecursionLimit == 1000

NoAgain == [node |-> NoNode, path |-> <<>>]

\* resolve's default path '' (line 271), and '.'
AgainPaths == { <<>>, <<".">> }

(***************************************************************************)
(* The virtual file system: lazy children and metadata (vfs.py lines       *)
(* 199-215, 299-312, 403-465).                                             *)
(***************************************************************************)
MaxKids == 2
MaxRuns == 2

\* Node.__init__ (lines 172-173), Node.release (lines 311-312): _subs = None,
\* told from every set of the names 1..kids
NoSubs == {-1}

Trees == [kids : 0..MaxKids, bupm : BOOLEAN]

\* Node.__init__ (lines 165-173), Dir.__init__ (lines 406-408)
FreshDir == [subs |-> NoSubs, bupm |-> FALSE, metadata |-> FALSE, mksubs |-> 0]

NoChild ==
    [alive |-> FALSE, subs |-> NoSubs, metadata |-> FALSE, mksubs |-> 0]

\* File(self, name, mode, sha, bupmode) in Dir._mksubs (lines 448-449)
FreshChild == [NoChild EXCEPT !.alive = TRUE]

NoCall == [node |-> "none", op |-> "none"]

NodeIdle ==
    /\ nd_tree = [kids |-> 0, bupm |-> FALSE]
    /\ dir = FreshDir
    /\ child = NoChild
    /\ nd_last = NoCall

NodeInit ==
    /\ nd_tree \in Trees
    /\ dir = FreshDir
    /\ child = NoChild
    /\ nd_last = NoCall

\* Node.subs, Node.sub (lines 204, 210): if self._subs == None
subs_is_none(subs) == subs = NoSubs

\* Dir._populate_metadata (line 413), Dir.metadata_file (line 458):
\* if not self._subs, which None and the empty dict both satisfy
subs_missing(subs) == subs = NoSubs \/ subs = {}

\* Dir._mksubs (lines 424-449): a new child per exposed entry, _bupm for a
\* .bupm entry; st is the pair (d, c) of the Dir and its child
Dir_mksubs(st) ==
    [d |-> [st.d EXCEPT !.subs = 1..nd_tree.kids,
                        !.bupm = nd_tree.bupm \/ @,
                        !.mksubs = @ + 1],
     c |-> IF nd_tree.kids >= 1 THEN FreshChild ELSE NoChild]

\* Dir._populate_metadata (lines 410-422): the stream's first record is
\* the Dir's, the next ones those of the children that are not directories
Dir_populate_metadata(st, force) ==
    IF st.d.metadata /\ ~force THEN st
    ELSE LET s1 == IF subs_missing(st.d.subs) THEN Dir_mksubs(st) ELSE st
         IN IF ~s1.d.bupm THEN s1
            ELSE [d |-> [s1.d EXCEPT !.metadata = TRUE],
                  c |-> IF s1.c.alive
                        THEN [s1.c EXCEPT !.metadata = TRUE]
                        ELSE s1.c]

(***************************************************************************)
(* The virtual file system: CommitDir (vfs.py lines 468-504).              *)
(*                                                                         *)
(* Commits are numbered so that a commit's parents have smaller numbers.   *)
(* A commit's hash in hex is the pair of its first two digits and its      *)
(* other 38: commits 1 and 3 share the first two digits, commits 1 and 2   *)
(* the other 38.                                                           *)
(***************************************************************************)
NumCommits == 3
MaxRefs == 2

Commits == 1..NumCommits

commithex(c) == << IF c % 2 = 1 THEN "aa" ELSE "bb", (c + 1) \div 2 >>

\* line 493: containername = commithex[:2]
containername(h) == h[1]

\* line 494: dirname = commithex[2:]
dirname(h) == h[2]

CommitGraphs ==
    { g \in [Commits -> SUBSET Commits] :
        \A c \in Commits : \A q \in g[c] : q < c }

RefLists ==
    UNION { [1..n -> Commits] : n \in 0..MaxRefs }

\* the commits reachable from commit c
RECURSIVE Ancestry(_)
Ancestry(c) == {c} \cup UNION { Ancestry(q) : q \in cd_parents[c] }

\* git.rev_list(hash): every commit reachable from the hash, once, none
\* before a commit it is a parent of, in any such order
rev_list(c) ==
    LET R == Ancestry(c)
        n == Cardinality(R)
    IN { s \in [1..n -> R] :
           /\ \A i, j \in 1..n : s[i] = s[j] => i = j
           /\ \A i, j \in 1..n : s[i] \in cd_parents[s[j]] => j < i }

NoCommitLists == [c \in {} |-> [d \in {} |-> 0]]

CdIdle ==
    /\ cd_parents = [c \in Commits |-> {}]
    /\ cd_list_refs = <<>>
    /\ cd_pc = "idle"
    /\ cd_refs = <<>>
    /\ cd_revs = <<>>
    /\ cd_subs = NoCommitLists

CdInit ==
    /\ cd_parents \in CommitGraphs
    /\ cd_list_refs \in RefLists
    /\ cd_pc = "idle"
    /\ cd_refs = <<>>
    /\ cd_revs = <<>>
    /\ cd_subs = NoCommitLists

ResIdle ==
    /\ vpc = "idle"
    /\ vop = "none"
    /\ vpath = <<>>
    /\ vphase = 1
    /\ vfirst = NoNode
    /\ vraised = "none"
    /\ vagain = NoAgain
    /\ vnode = NoNode
    /\ vparts = <<>>
    /\ vstack = <<>>
    /\ symrefs = 0
    /\ derefs = 0
    /\ depth = 0
    /\ vresult = "none"

VfsIdle == ResIdle /\ NodeIdle /\ CdIdle

VfsInit ==
    /\ target \in [Symlinks -> Targets]
    /\ \A n \in CommitSymlinks : target[n] = <<"x">>
    /\ VfsIdle

\* a saved tree's symlinks with each of their targets
DerefInit ==
    /\ target \in { [n \in Symlinks |->
                        IF n \in CommitSymlinks THEN t ELSE <<"x">>] :
                    t \in CommitTargets }
    /\ VfsIdle

unwind_no_finally(n, calls) == n

\* lines 384-385: finally: _symrefs -= 1, in each of the dereference()
\* calls that an exception leaves through
unwind(n, calls) == n - calls

swallowed_any(op, phase, exc) == op = "try_resolve" /\ phase = 2

\* try_resolve (lines 281-284): except NoSuchFile around n.lresolve('.')
swallowed(op, phase, exc) ==
    op = "try_resolve" /\ phase = 2 /\ exc = "NoSuchFile"

\* an exception leaves through every dereference() in progress, and each
\* one's finally clause (lines 384-385) takes its increment back; the one
\* try_resolve catches ends the operation with the node it had
Raise(exc) ==
    /\ vraised' = exc
    /\ IF swallowed(vop, vphase, exc)
       THEN vresult' = "node" /\ vnode' = vfirst
       ELSE vresult' = exc /\ UNCHANGED vnode
    /\ vpc' = "done"
    /\ symrefs' = unwind(symrefs, Len(vstack))
    /\ vstack' = <<>>
    /\ depth' = 0
    /\ UNCHANGED <<target, vpath, vfirst, vagain, vop, vphase, vparts, derefs>>

\* self.lresolve(path, stay_inside_fs) called from a frame at depth d
\* (lines 250-269): an empty path returns self at once, otherwise
\* start._lresolve(parts) is called
EnterLresolve(self, path, stay_inside_fs, d) ==
    IF path = <<>>
    THEN /\ vpc' = "value"
         /\ vnode' = self
         /\ vparts' = <<>>
         /\ depth' = d
    ELSE /\ vpc' = "lresolve"
         /\ vnode' = lresolve_start(self, path, stay_inside_fs)
         /\ vparts' = path_parts(lresolve_path(path))
         /\ depth' = d + 2

\* top.lresolve(path), top.resolve(path) or top.try_resolve(path) is called
Call ==
    /\ vpc = "idle"
    /\ UNCHANGED <<gcvars, rdvars, nodevars, cdvars>>
    /\ \E op \in {"lresolve", "resolve", "try_resolve"}, path \in Paths :
          /\ vop' = op
          /\ vpath' = path
          /\ EnterLresolve("/", path, FALSE, IF op = "lresolve" THEN 0 ELSE 1)
    /\ UNCHANGED <<target, vphase, vfirst, vraised, vagain, vstack, symrefs,
                   derefs, vresult>>

descend_always(rest) == TRUE

\* line 245: with parts left, the child's _lresolve is called with them;
\* with none left, the child itself is returned
descend(rest) == rest # <<>>

\* Node._lresolve (lines 234-248) on a node that is not a symlink
NodeLresolve ==
    /\ vpc = "lresolve"
    /\ UNCHANGED <<gcvars, rdvars, nodevars, cdvars>>
    /\ NodeInfo[vnode].kind # "Symlink"
    /\ IF depth > RecursionLimit THEN Raise("RuntimeError")
       ELSE IF vparts = <<>>
       THEN /\ vpc' = "value"
            /\ UNCHANGED <<target, vpath, vfirst, vagain, vraised, vop, vphase, vnode, vparts, vstack,
                           symrefs, derefs, depth, vresult>>
       ELSE LET name == Head(vparts)
                rest == Tail(vparts)
            IN IF name = "."
               THEN /\ vparts' = rest
                    /\ depth' = depth + 1
                    /\ UNCHANGED <<target, vpath, vfirst, vagain, vraised, vpc, vop, vphase, vnode,
                                   vstack, symrefs, derefs, vresult>>
               ELSE IF name = ".."
               THEN IF NodeInfo[vnode].parent = NoNode
                    THEN Raise("NoSuchFile")
                    ELSE /\ vnode' = NodeInfo[vnode].parent
                         /\ vparts' = rest
                         /\ depth' = depth + 1
                         /\ UNCHANGED <<target, vpath, vfirst, vagain, vraised, vpc, vop, vphase,
                                        vstack, symrefs, derefs, vresult>>
               ELSE IF sub(vnode, name) = NoNode
               THEN Raise("NoSuchFile")
               ELSE /\ vnode' = sub(vnode, name)
                    /\ vparts' = rest
                    /\ vpc' = IF descend(rest) THEN "lresolve" ELSE "value"
                    /\ depth' = IF descend(rest) THEN depth + 1 ELSE depth
                    /\ UNCHANGED <<target, vpath, vfirst, vagain, vraised, vop, vphase, vstack,
                                   symrefs, derefs, vresult>>

\* Symlink._lresolve (lines 387-388) calling self.dereference() (lines
\* 365-385), which calls parent.lresolve(readlink(), stay_inside_fs=True)
Dereference ==
    /\ vpc = "lresolve"
    /\ UNCHANGED <<gcvars, rdvars, nodevars, cdvars>>
    /\ NodeInfo[vnode].kind = "Symlink"
    /\ IF depth + 1 > RecursionLimit THEN Raise("RuntimeError")
       ELSE IF symrefs > MaxSymlinks THEN Raise("TooManySymlinks")
       ELSE /\ symrefs' = symrefs + 1
            /\ derefs' = derefs + 1
            /\ vstack' = Append(vstack, [parts |-> vparts, depth |-> depth,
                                         entry |-> symrefs, link |-> vnode])
            /\ EnterLresolve(NodeInfo[vnode].parent, target[vnode], TRUE,
                             depth + 1)
            /\ UNCHANGED <<target, vpath, vfirst, vagain, vraised, vop, vphase, vresult>>

\* the lresolve that dereference() called returns a node: line 385, and
\* Symlink._lresolve goes on with that node's _lresolve(parts)
DerefReturn ==
    /\ vpc = "value"
    /\ UNCHANGED <<gcvars, rdvars, nodevars, cdvars>>
    /\ vstack # <<>>
    /\ LET fr == vstack[Len(vstack)]
       IN /\ vstack' = SubSeq(vstack, 1, Len(vstack) - 1)
          /\ symrefs' = symrefs - 1
          /\ vparts' = fr.parts
          /\ depth' = fr.depth + 1
          /\ vpc' = "lresolve"
    /\ UNCHANGED <<target, vpath, vfirst, vagain, vraised, vop, vphase, vnode, derefs, vresult>>

then_dereference_try_only(op, phase) == op = "try_resolve" /\ phase = 1

\* resolve (line 273) and try_resolve (line 282) call lresolve('.') on the
\* node that lresolve(path) returned
then_dereference(op, phase) ==
    op \in {"resolve", "try_resolve"} /\ phase = 1

\* the lresolve that the caller, resolve() or try_resolve() called returns
\* a node: resolve and try_resolve go on with that node's lresolve('.')
OpReturn ==
    /\ vpc = "value"
    /\ UNCHANGED <<gcvars, rdvars, nodevars, cdvars>>
    /\ vstack = <<>>
    /\ IF then_dereference(vop, vphase)
       THEN /\ vphase' = 2
            /\ vfirst' = vnode
            /\ EnterLresolve(vnode, <<".">>, FALSE, 1)
            /\ UNCHANGED vresult
       ELSE /\ vpc' = "done"
            /\ vresult' = "node"
            /\ depth' = 0
            /\ UNCHANGED <<vphase, vfirst, vnode, vparts>>
    /\ UNCHANGED <<target, vpath, vraised, vagain, vop, vstack, symrefs, derefs>>

\* the node n that top.resolve(path) returned is asked n.resolve('') or
\* n.resolve('.') (lines 271-273)
ResolveAgain ==
    /\ vpc = "done"
    /\ vop = "resolve"
    /\ vresult = "node"
    /\ vagain = NoAgain
    /\ UNCHANGED <<gcvars, rdvars, nodevars, cdvars>>
    /\ \E path \in AgainPaths :
          /\ vagain' = [node |-> vnode, path |-> path]
          /\ EnterLresolve(vnode, path, FALSE, 1)
    /\ vphase' = 1
    /\ vfirst' = NoNode
    /\ vresult' = "none"
    /\ derefs' = 0
    /\ UNCHANGED <<target, vpath, vraised, vop, vstack, symrefs>>

VfsNext ==
    \/ Call
    \/ ResolveAgain
    \/ NodeLresolve
    \/ Dereference
    \/ DerefReturn
    \/ OpReturn

(***************************************************************************)
(* Calls of subs(), sub(name), metadata(), metadata_file() and release()   *)
(* on a Dir and on the File named 1 in it.  The caller looks its File up   *)
(* again after the Dir has made new children.                              *)
(***************************************************************************)
NodeSame == UNCHANGED <<gcvars, rdvars, resvars, cdvars, nd_tree>>

\* Node.subs (lines 202-206) and Node.sub (lines 208-215) on the Dir
Dir_subs ==
    /\ dir.mksubs < MaxRuns
    /\ NodeSame
    /\ \E op \in {"subs", "sub"} : nd_last' = [node |-> "dir", op |-> op]
    /\ LET st == [d |-> dir, c |-> child]
           s1 == IF subs_is_none(dir.subs) THEN Dir_mksubs(st) ELSE st
       IN dir' = s1.d /\ child' = s1.c

\* Dir.metadata (lines 451-454)
Dir_metadata ==
    /\ dir.mksubs < MaxRuns
    /\ NodeSame
    /\ nd_last' = [node |-> "dir", op |-> "metadata"]
    /\ LET s1 == Dir_populate_metadata([d |-> dir, c |-> child], FALSE)
       IN dir' = s1.d /\ child' = s1.c

\* Dir.metadata_file (lines 456-460)
Dir_metadata_file ==
    /\ dir.mksubs < MaxRuns
    /\ NodeSame
    /\ nd_last' = [node |-> "dir", op |-> "metadata_file"]
    /\ LET st == [d |-> dir, c |-> child]
           s1 == IF subs_missing(dir.subs) THEN Dir_mksubs(st) ELSE st
       IN dir' = s1.d /\ child' = s1.c

\* Dir.release (lines 462-465); the children made before live on with
\* whoever holds them
Dir_release ==
    /\ NodeSame
    /\ nd_last' = [node |-> "dir", op |-> "release"]
    /\ dir' = FreshDir
    /\ UNCHANGED child

\* Node.subs and Node.sub on the File, whose _mksubs is Node._mksubs
\* (lines 199-200): no children
File_subs ==
    /\ child.alive
    /\ NodeSame
    /\ \E op \in {"subs", "sub"} : nd_last' = [node |-> "file", op |-> op]
    /\ child' = IF subs_is_none(child.subs)
                THEN [child EXCEPT !.subs = {}, !.mksubs = @ + 1]
                ELSE child
    /\ UNCHANGED dir

\* Node.metadata (lines 303-307) on the File: its parent's
\* _populate_metadata(force=True) unless the File has its record
File_metadata ==
    /\ child.alive
    /\ dir.mksubs < MaxRuns
    /\ NodeSame
    /\ nd_last' = [node |-> "file", op |-> "metadata"]
    /\ LET st == [d |-> dir, c |-> child]
           s1 == IF ~child.metadata
                 THEN Dir_populate_metadata(st, TRUE)
                 ELSE st
       IN dir' = s1.d /\ child' = s1.c

\* Node.release (lines 309-312) on the File
File_release ==
    /\ child.alive
    /\ NodeSame
    /\ nd_last' = [node |-> "file", op |-> "release"]
    /\ child' = [child EXCEPT !.subs = NoSubs, !.metadata = FALSE,
                              !.mksubs = 0]
    /\ UNCHANGED dir

NodeNext ==
    \/ Dir_subs
    \/ Dir_metadata
    \/ Dir_metadata_file
    \/ Dir_release
    \/ File_subs
    \/ File_metadata
    \/ File_release

(***************************************************************************)
(* CommitDir._mksubs (lines 481-504), one step per loop iteration.         *)
(***************************************************************************)
CdSame == UNCHANGED <<gcvars, rdvars, resvars, nodevars, cd_parents,
                      cd_list_refs>>

\* lines 482-483: self._subs = {}, refs = git.list_refs()
CommitDir_mksubs ==
    /\ cd_pc = "idle"
    /\ CdSame
    /\ cd_subs' = NoCommitLists
    /\ cd_refs' = cd_list_refs
    /\ cd_pc' = "refs"
    /\ UNCHANGED cd_revs

\* lines 484-489: the next ref and its rev_list, or the end of the refs
NextRef ==
    /\ cd_pc = "refs"
    /\ CdSame
    /\ IF cd_refs = <<>>
       THEN /\ cd_pc' = "done"
            /\ UNCHANGED <<cd_refs, cd_revs>>
       ELSE /\ cd_revs' \in rev_list(Head(cd_refs))
            /\ cd_refs' = Tail(cd_refs)
            /\ cd_pc' = "revs"
    /\ UNCHANGED cd_subs

\* line 500: if n1.commits.get(dirname)
already_known(commits, name) == name \in DOMAIN commits

\* lines 490-504: the next commit of the ref's rev_list; its CommitList is
\* made if there is none of that name, and a commit already in it ends the
\* work on this ref
NextCommit ==
    /\ cd_pc = "revs"
    /\ cd_revs # <<>>
    /\ CdSame
    /\ LET commit == Head(cd_revs)
           cname == containername(commithex(commit))
           dname == dirname(commithex(commit))
           n1 == IF cname \in DOMAIN cd_subs
                 THEN cd_subs[cname]
                 ELSE [d \in {} |-> 0]
           n1_added == [d \in DOMAIN n1 \cup {dname} |->
                          IF d = dname THEN commit ELSE n1[d]]
           stop == already_known(n1, dname)
       IN /\ cd_subs' = [c \in DOMAIN cd_subs \cup {cname} |->
                           IF c = cname
                           THEN IF stop THEN n1 ELSE n1_added
                           ELSE cd_subs[c]]
          /\ IF stop
             THEN cd_revs' = <<>> /\ cd_pc' = "refs"
             ELSE cd_revs' = Tail(cd_revs) /\ UNCHANGED cd_pc
    /\ UNCHANGED cd_refs

\* line 490: the ref's rev_list is used up
RevsEnd ==
    /\ cd_pc = "revs"
    /\ cd_revs = <<>>
    /\ CdSame
    /\ cd_pc' = "refs"
    /\ UNCHANGED <<cd_refs, cd_revs, cd_subs>>

CdNext ==
    \/ CommitDir_mksubs
    \/ NextRef
    \/ NextCommit
    \/ RevsEnd

(***************************************************************************)
(* The virtual file system: file readers (vfs.py lines 45-160).            *)
(*                                                                         *)
(* A split tree is a sequence of entries (ofs, isdir, sha); the object     *)
(* behind sha is inlined: the blob's bytes, or the sub-tree.  An entry's   *)
(* offset is the byte at which its content starts, counted from the start  *)
(* of the tree the entry is in (each tree's first entry is at 0), which    *)
(* is how _last_chunk_info and _chunkiter read it.  Byte number i of a     *)
(* file has the value i, so that a misplaced byte shows.                   *)
(***************************************************************************)
\* the longest file
MaxSize == 3
\* the deepest split tree: 1 is a tree of blobs
MaxDepth == 2

Bytes(base, l) == [i \in 1..l |-> base + i]

BlobEntry(base, l) ==
    [ofs |-> 0, isdir |-> FALSE, blob |-> Bytes(base, l), sub |-> <<>>]

DirEntry(t) == [ofs |-> 0, isdir |-> TRUE, blob |-> <<>>, sub |-> t]

ShiftOfs(t, l) == [i \in 1..Len(t) |-> [t[i] EXCEPT !.ofs = @ + l]]

\* the split trees of depth <= d over the s bytes that follow byte base
RECURSIVE TreesAt(_, _, _)
TreesAt(d, s, base) ==
    UNION { { <<e>> \o ShiftOfs(t, l) :
                e \in {BlobEntry(base, l)}
                      \cup (IF d > 1
                            THEN { DirEntry(u) : u \in TreesAt(d - 1, l, base) }
                            ELSE {}),
                t \in (IF l = s THEN {<<>>}
                       ELSE TreesAt(d, s - l, base + l)) }
            : l \in 1..s }

ChunkedFiles ==
    { [isdir |-> TRUE, tree |-> t, blob |-> <<>>] :
        t \in UNION { TreesAt(MaxDepth, s, 0) : s \in 1..MaxSize } }

NormalFiles ==
    { [isdir |-> FALSE, tree |-> <<>>, blob |-> Bytes(0, s)] :
        s \in 0..MaxSize }

\* the bytes of a split tree: its leaves joined in offset order
RECURSIVE TreeBytes(_)
TreeBytes(t) ==
    IF t = <<>> THEN <<>>
    ELSE (IF t[1].isdir THEN TreeBytes(t[1].sub) ELSE t[1].blob)
         \o TreeBytes(Tail(t))

FileBytes(f) == IF f.isdir THEN TreeBytes(f.tree) ELSE f.blob

\* s[n:] for n >= 0
Drop(s, n) == SubSeq(s, n + 1, Len(s))

\* s[:n] for n >= 0
Take(s, n) == SubSeq(s, 1, IF n < Len(s) THEN n ELSE Len(s))

\* lines 57-65
RECURSIVE last_chunk_info(_)
last_chunk_info(t) ==
    LET e == t[Len(t)]
    IN IF e.isdir
       THEN LET si == last_chunk_info(e.sub)
            IN [ofs |-> e.ofs + si.ofs, len |-> si.len]
       ELSE [ofs |-> e.ofs, len |-> Len(e.blob)]

total_size_last_ofs(t) == last_chunk_info(t).ofs

\* lines 68-70
total_size(t) == last_chunk_info(t).ofs + last_chunk_info(t).len

\* File.size (lines 336-347)
File_size(f) == IF f.isdir THEN total_size(f.tree) ELSE Len(f.blob)

\* lines 78-81: the entry the iteration starts at, 1-based
first_entry(t, startofs) ==
    CHOOSE i \in 1..Len(t) :
        /\ (i + 1 > Len(t) \/ t[i + 1].ofs > startofs)
        /\ \A j \in 1..(i - 1) :
              ~(j + 1 > Len(t) \/ t[j + 1].ofs > startofs)

skipmore_from_start(startofs, ofs) == startofs

\* lines 86-88
skipmore(startofs, ofs) == IF startofs - ofs < 0 THEN 0 ELSE startofs - ofs

\* _chunkiter (lines 73-93): the blobs the generator yields, in order
RECURSIVE chunkiter(_, _)
RECURSIVE chunkiter_from(_, _, _)
chunkiter_from(t, i, startofs) ==
    IF i > Len(t) THEN <<>>
    ELSE (IF t[i].isdir
          THEN chunkiter(t[i].sub, skipmore(startofs, t[i].ofs))
          ELSE << Drop(t[i].blob, skipmore(startofs, t[i].ofs)) >>)
         \o chunkiter_from(t, i + 1, startofs)

chunkiter(t, startofs) == chunkiter_from(t, first_entry(t, startofs), startofs)

NoReader == [made |-> FALSE, it |-> FALSE, rest |-> <<>>, blob |-> <<>>,
             ofs |-> 0]

\* the last call.  A read: after which operation (prev), with which
\* argument (arg), from which offset, of how many bytes (count, the size
\* handed to the chunk reader), and what it returned.  A seek: prev is
\* "seek", arg its argument, from is -1.
NoRead == [prev |-> "none", arg |-> 0, from |-> -1, count |-> 0, buf |-> <<>>]

\* _ChunkReader.__init__ (lines 97-104).  it: self.it is a generator (not
\* None); rest: what it has still to yield; blob: self.blob, None as ''
ChunkReader_init(f, startofs) ==
    IF f.isdir
    THEN [made |-> TRUE, it |-> TRUE, rest |-> chunkiter(f.tree, startofs),
          blob |-> <<>>, ofs |-> startofs]
    ELSE [made |-> TRUE, it |-> FALSE, rest |-> <<>>,
          blob |-> Drop(f.blob, startofs), ofs |-> startofs]

\* _ChunkReader.next (lines 106-122): the loop, from the reader r and the
\* bytes out gathered so far; returns the reader and out
RECURSIVE ChunkReader_loop(_, _, _)
ChunkReader_loop(r, out, size) ==
    IF ~(Len(out) < size) THEN [reader |-> r, out |-> out]
    ELSE LET fetch == r.it /\ r.blob = <<>>
             r1 == IF ~fetch THEN r
                   ELSE IF r.rest = <<>> THEN [r EXCEPT !.it = FALSE]
                   ELSE [r EXCEPT !.blob = Head(r.rest),
                                  !.rest = Tail(r.rest)]
             want == size - Len(out)
             out2 == IF r1.blob # <<>> THEN out \o Take(r1.blob, want)
                     ELSE out
             r2 == IF r1.blob # <<>>
                   THEN [r1 EXCEPT !.blob = Drop(r1.blob, want)]
                   ELSE r1
         IN IF ~r2.it THEN [reader |-> r2, out |-> out2]
            ELSE ChunkReader_loop(r2, out2, size)

ChunkReader_next(r, size) ==
    LET res == ChunkReader_loop(r, <<>>, size)
    IN [reader |-> [res.reader EXCEPT !.ofs = @ + Len(res.out)],
        out |-> res.out]

RdInit ==
    /\ rd_file \in ChunkedFiles \cup NormalFiles
    /\ rd_ofs = 0
    /\ rd_reader = NoReader
    /\ rd_last = NoRead

RdIdle ==
    /\ rd_file = [isdir |-> FALSE, tree |-> <<>>, blob |-> <<>>]
    /\ rd_ofs = 0
    /\ rd_reader = NoReader
    /\ rd_last = NoRead

seek_ofs_no_upper(ofs, size) == IF ofs < 0 THEN 0 ELSE ofs

\* lines 135-140
seek_ofs(ofs, size) ==
    IF ofs > size THEN size
    ELSE IF ofs < 0 THEN 0
    ELSE ofs

\* _FileReader.seek (lines 134-140)
Seek ==
    /\ \E ofs \in (-1)..(MaxSize + 1) :
          /\ rd_ofs' = seek_ofs(ofs, File_size(rd_file))
          /\ rd_last' = [NoRead EXCEPT !.prev = "seek", !.arg = ofs]
    /\ UNCHANGED <<rd_file, rd_reader>>
    /\ UNCHANGED <<gcvars, vfsvars>>

\* lines 148-150: read builds a chunk reader unless it has one that stands
\* at its offset
reader_needed(reader, ofs) == ~reader.made \/ reader.ofs # ofs

\* where fetching an object can fail inside read(count): in
\* _ChunkReader.__init__, which fetches the blob of a normal file (line
\* 103; for a chunked file it only makes the generator), and in
\* _ChunkReader.next, at a next(self.it) (line 111), which is reached when
\* bytes are wanted beyond those of self.blob
FailurePoints(f, reader, ofs, count) ==
    LET r == IF reader_needed(reader, ofs)
             THEN ChunkReader_init(f, ofs)
             ELSE reader
    IN (IF reader_needed(reader, ofs) /\ ~f.isdir THEN {"init"} ELSE {})
       \cup (IF count > 0 /\ r.it /\ Len(r.blob) < count
             THEN {"next"}
             ELSE {})

reader_kept_after_failure(reader, where) == reader

\* lines 151-155: an exception of reader.next sets self.reader = None; one
\* of _ChunkReader(...) leaves self.reader as it was (line 149 assigns
\* nothing then)
reader_after_failure(reader, where) ==
    IF where = "next" THEN NoReader ELSE reader

\* _FileReader.read (lines 145-157)
Read ==
    /\ \E n \in (-1)..(MaxSize + 1) :
          LET count == IF n < 0 THEN File_size(rd_file) - rd_ofs ELSE n
              r == IF reader_needed(rd_reader, rd_ofs)
                   THEN ChunkReader_init(rd_file, rd_ofs)
                   ELSE rd_reader
              res == ChunkReader_next(r, count)
          IN \/ /\ rd_reader' = res.reader
                /\ rd_ofs' = rd_ofs + Len(res.out)
                /\ rd_last' = [prev |-> IF rd_last.from = -1
                                        THEN rd_last.prev
                                        ELSE "read",
                               arg |-> n, from |-> rd_ofs, count |-> count,
                               buf |-> res.out]
             \/ \E where \in FailurePoints(rd_file, rd_reader, rd_ofs, count) :
                   /\ rd_reader' = reader_after_failure(rd_reader, where)
                   /\ rd_last' = [NoRead EXCEPT !.prev = "failed " \o where,
                                                !.arg = n]
                   /\ UNCHANGED rd_ofs
    /\ UNCHANGED rd_file
    /\ UNCHANGED <<gcvars, vfsvars>>

RdNext ==
    \/ Seek
    \/ Read

vars == <<gcvars, vfsvars, rdvars>>

\* the gc run, on its own
Init == GcInit /\ VfsIdle /\ target = [n \in Symlinks |-> <<"x">>] /\ RdIdle

Next == GcNext

Spec == Init /\ [][Next]_vars

\* the gc run, and a second one after it
SpecRerun == Init /\ [][Next \/ RunAgain]_vars

\* path resolution, on its own
GcIdle ==
    /\ threshold = 0
    /\ reachable = {}
    /\ files = {}
    /\ midx = FALSE
    /\ bupbloom = FALSE
    /\ reflog = "full"
    /\ pc = "idle"
    /\ run = 1
    /\ first = "none"
    /\ existing_count = 0
    /\ tmpbloom = "none"
    /\ live = {}
    /\ live1 = {}
    /\ LocalsIdle
    /\ finalized = {}
    /\ unlinked = {}
    /\ marked = {}
    /\ wrote = [p \in {} |-> 0]
    /\ saved_errors = FALSE
    /\ status = "none"

InitResolve == GcIdle /\ VfsInit /\ RdIdle

NextResolve == VfsNext

SpecResolve == InitResolve /\ [][NextResolve]_vars

\* the paths resolved in a saved tree
InitDeref == GcIdle /\ DerefInit /\ RdIdle

SpecDeref == InitDeref /\ [][VfsNext]_vars

\* lazy children and metadata, on their own
InitNodes ==
    /\ GcIdle
    /\ ResIdle
    /\ target = [n \in Symlinks |-> <<"x">>]
    /\ NodeInit
    /\ CdIdle
    /\ RdIdle

NextNodes == NodeNext

SpecNodes == InitNodes /\ [][NextNodes]_vars

\* the expansion of CommitDir, on its own
InitCommits ==
    /\ GcIdle
    /\ ResIdle
    /\ target = [n \in Symlinks |-> <<"x">>]
    /\ NodeIdle
    /\ CdInit
    /\ RdIdle

NextCommits == CdNext

SpecCommits == InitCommits /\ [][NextCommits]_vars

\* file readers, on their own
InitRead ==
    /\ GcIdle
    /\ VfsIdle
    /\ target = [n \in Symlinks |-> <<"x">>]
    /\ RdInit

NextRead == RdNext

SpecRead == InitRead /\ [][NextRead]_vars

(***************************************************************************)
(* Properties of the gc run.                                               *)
(***************************************************************************)
Ended == {"done", "aborted", "failed"}

LiveCountOf(p) == idx_live_count(p, live)

\* C1: after a gc run that completes, every object reachable from a ref is
\* still contained in a pack that exists in the pack directory, whatever
\* the threshold and whatever false positives the live set has.
C1_ReachableStillStored ==
    pc = "done" => reachable \subseteq Retrievable(files)

\* C2: in every state of the sweep, and in the state an exception or an
\* interrupt leaves behind, a file of a source pack has been unlinked only
\* if every live object of that pack is in a pack the writer has finished,
\* and only if the pack was handled completely (every live entry written).
C2_UnlinkOnlyAfterFinished ==
    \A f \in unlinked :
        /\ f.pack \in DOMAIN wrote
        /\ f.pack \in marked
        /\ wrote[f.pack] = LiveCountOf(f.pack)
        /\ \A i \in 1..Len(f.pack) :
              f.pack[i] \in live =>
                  \E n \in finalized : Contains(n, f.pack[i])

\* a run was cut short after a pack holding live objects had been unlinked
C2_Witness ==
    /\ pc = "aborted"
    /\ \E f \in unlinked : LiveCountOf(f.pack) > 0
    /\ \E p \in DOMAIN wrote : p \notin marked /\ wrote[p] > 0

\* the packs of the list that sweep is through with
Handled == (DOMAIN wrote \ todo) \ {cur}

InSweep == pc \in {"loop", "rewrite", "unlink", "close", "final", "finish"}

C6_BloomFileRemoved ==
    pc \in Ended => tmpbloom # "open"

\* C7: when gc is run a second time with nothing changed in between, the
\* second run marks no pack stale and writes no object (here even when the
\* second run's live set equals the first run's).
C7_SecondRunIdle ==
    (run = 2 /\ first = "done" /\ live = live1) =>
        /\ marked = {}
        /\ \A p \in DOMAIN wrote : wrote[p] = 0

\* C8: a pack is rewritten only if strictly fewer than (100 - threshold)
\* percent of its entries are live.
C8_RewriteOnlyOverThreshold ==
    \A p \in DOMAIN wrote :
        wrote[p] > 0 =>
            100 * LiveCountOf(p) < (100 - threshold) * Len(p)

\* C9: after a gc run that completes, the number of entries over all pack
\* indices is at most the number counted when the run started.
C9_CountNeverGrows ==
    pc = "done" => count_objects(files) <= existing_count

\* a completed run that rewrote two packs sharing a live object
C9_Witness ==
    /\ pc = "done"
    /\ \E p, q \in DOMAIN wrote :
          /\ p # q
          /\ wrote[p] > 0
          /\ wrote[q] > 0
          /\ \E o \in live : Contains(p, o) /\ Contains(q, o)

\* C10: when a run is cut short in steps 3-4 and gc is then run again to
\* completion, every reachable object is in some pack on disk afterwards.
C10_RerunKeepsReachable ==
    (run = 2 /\ first = "aborted" /\ pc = "done") =>
        reachable \subseteq Retrievable(files)

\* the step of the driver that position p belongs to: 0 count, 1 build the
\* live set, 2 clear the midx files, 3 clear the bloom filter, 4 expire the
\* reflog, 5 sweep; 6 once the run has ended
StepOf(p) ==
    CASE p = "start" -> 0
      [] p \in {"find_live", "walk"} -> 1
      [] p = "clear_midx" -> 2
      [] p = "clear_bloom" -> 3
      [] p = "expire" -> 4
      [] p \in {"sweep", "loop", "rewrite", "unlink", "close", "final",
                "finish"} -> 5
      [] OTHER -> 6

SweepTouched ==
    \/ files' # files
    \/ unlinked' # unlinked
    \/ finalized' # finalized
    \/ wpack' # wpack
    \/ wrote' # wrote
    \/ marked' # marked

StepOrder ==
    /\ StepOf(pc') \in {StepOf(pc), StepOf(pc) + 1, 6}
    /\ existing_count' # existing_count => StepOf(pc) = 0
    /\ StepOf(pc') \in 1..5 => existing_count' > 0
    /\ (tmpbloom' = "open" /\ tmpbloom = "none") => StepOf(pc) = 1
    /\ live' # live => StepOf(pc) = 1 /\ StepOf(pc') = 2
    /\ midx' # midx => StepOf(pc) = 2
    /\ bupbloom' # bupbloom => StepOf(pc) = 3
    /\ reflog' # reflog => StepOf(pc) = 4
    /\ SweepTouched => StepOf(pc) = 5 /\ reflog = "expired"
    /\ StepOf(pc) = 5 =>
          reflog = "expired" /\ ~midx /\ ~bupbloom /\ tmpbloom = "open"

\* C11: in a run with a nonzero object count the driver goes through count,
\* live set, clearing the midx files and the bloom filter, reflog expiry and
\* sweep in this order, one step at a time, each effect happening in its
\* own step; nothing is unlinked, marked stale or written to the writer
\* before the reflog has been expired.
C11_StepsInOrder == [][StepOrder]_vars

\* a run went through every step and its sweep wrote and unlinked
C11_Witness ==
    /\ pc = "done"
    /\ reflog = "expired"
    /\ unlinked # {}
    /\ \E p \in DOMAIN wrote : wrote[p] > 0

NothingToCollect ==
    /\ pc' = "done"
    /\ existing_count' = 0
    /\ status' = IF saved_errors' THEN 1 ELSE 0
    /\ UNCHANGED <<files, midx, bupbloom, reflog, tmpbloom, live, sources,
                   todo, cur, stale_files, wpack, finalized, unlinked, marked,
                   wrote>>

\* C12: when the pack directory holds no objects the run ends right after
\* counting: no BloomSet file is created, no midx or bloom file removed, the
\* reflog is not expired, no writer is opened, no file is deleted, and the
\* exit status is 0 unless errors were saved.
C12_NothingToCollect ==
    [][(pc = "start" /\ count_objects(files) = 0) => NothingToCollect]_vars

\* a run on an empty pack directory ended with the midx and bloom files
\* still there
C12_Witness ==
    /\ pc = "done"
    /\ existing_count = 0
    /\ status = 0
    /\ midx
    /\ bupbloom
    /\ tmpbloom = "none"
    /\ reflog = "full"

MarkedPaths == UNION { {IdxPath(p), PackPath(p)} : p \in marked }

IsPrefix(s, t) == Len(s) <= Len(t) /\ SubSeq(t, 1, Len(s)) = s

\* remove_stale_files is running: as on_pack_finish, with the new pack's
\* prefix, or as the call that follows writer.close(), with None
InRemoveStale ==
    /\ pc = "unlink"
    /\ ret \in {"rewrite", "final", "finish"}
    /\ ret = "finish" <=> prefix = NoPack

StaleDiscipline ==
    /\ unlinked' # unlinked =>
          /\ InRemoveStale
          /\ \E path \in files \ unlinked :
                /\ path = stale_files[ui]
                /\ path \in MarkedPaths
                /\ unlinked' = unlinked \cup {path}
                /\ files' = files \ {path}
    /\ (files' # files /\ unlinked' = unlinked) =>
          \A path \in files : path \in files'
    /\ (stale_files' # stale_files /\ pc' \notin {"aborted", "done"}) =>
          IF pc = "unlink"
          THEN stale_files' = <<>>
          ELSE IsPrefix(stale_files, stale_files') /\ files' = files
    /\ (pc = "unlink" /\ pc' \notin {"unlink", "aborted"}) =>
          stale_files' = <<>>

SweepReturned == pc = "finish"

\* C20: during sweep a file is unlinked only by remove_stale_files, run as
\* the writer's on_pack_finish or after writer.close(), and then it is a
\* path from the buffer that was not unlinked before; elsewhere the buffer
\* only grows at its end; each remove_stale_files call that returns leaves
\* it empty; and when sweep has returned the buffer is empty and every
\* path marked stale has been unlinked.
C20_StaleBuffer ==
    /\ [](SweepReturned => stale_files = <<>> /\ MarkedPaths \subseteq unlinked)
    /\ [][StaleDiscipline]_vars

\* sweep returned after marking two packs stale and finishing a new pack:
\* on_pack_finish and the final call have both run
C20_Witness ==
    /\ SweepReturned
    /\ Cardinality(marked) >= 2
    /\ finalized # {}
    /\ MarkedPaths \subseteq unlinked
    /\ stale_files = <<>>

\* sweep is at its two assertions (lines 120-123): the loop over the packs
\* is over and writer.close() has not been called
AtAsserts == pc = "loop" /\ todo = {}

\* C23: the two assertions in sweep hold: from the start of sweep up to
\* the point just before writer.close(), whatever packs were kept, deleted
\* or rewritten and however often the writer started a new pack, the pack
\* directory holds no bup.bloom and no *.midx file.
C23_AssertsHold ==
    pc \in {"sweep", "loop", "rewrite", "close"}
        \/ (pc = "unlink" /\ ret = "rewrite")
    => ~bupbloom /\ ~midx

\* sweep is at its assertions after it rewrote a pack, deleted another and
\* the writer finished a pack on the way
C23_Witness ==
    /\ AtAsserts
    /\ finalized # {}
    /\ \E p \in marked : wrote[p] > 0
    /\ \E p \in marked : LiveCountOf(p) = 0
    /\ ~bupbloom
    /\ ~midx

\* remove_stale_files runs as on_pack_finish and none of the paths in its
\* buffer is a file of the pack just finished
NewPackNotStale ==
    (pc = "unlink" /\ prefix # NoPack) =>
        \A i \in 1..Len(stale_files) : stale_files[i].pack # prefix

\* C24: remove_stale_files never unlinks a file of a pack that the writer
\* finished in this run: for every threshold, when it runs as
\* on_pack_finish no buffered path is the .idx or .pack of the new pack,
\* and no path it unlinks is a file of a pack finished before.
C24_NewPackNeverUnlinked ==
    /\ []NewPackNotStale
    /\ [][unlinked' # unlinked =>
             \A f \in unlinked' \ unlinked : f.pack \notin finalized]_vars

(***************************************************************************)
(* Properties of the virtual file system                                   *)
(***************************************************************************)
\* C4: resolve() always ends, by returning a node after at most 100
\* dereferences or by raising TooManySymlinks (NoSuchFile for a path that
\* does not exist), and never by running into the interpreter's recursion
\* limit; with /a/b a symlink to 'c' and /a/c a symlink to '/a/b',
\* resolve('/a/b') raises TooManySymlinks.
C4_ResolveBounded ==
    (vop = "resolve" /\ vpc = "done") =>
        /\ vresult # "RuntimeError"
        /\ vresult = "node" => derefs <= MaxSymlinks
        /\ (/\ target["/a/b"] = <<"c">>
            /\ target["/a/c"] = <<"/", "a", "/", "b">>
            /\ vpath = <<"/", "a", "/", "b">>) => vresult = "TooManySymlinks"

RangeRead ==
    /\ rd_file.isdir
    /\ rd_last.from >= 0
    /\ rd_last.count >= 0
    /\ rd_last.from + rd_last.count <= File_size(rd_file)

BytesOfRange == Take(Drop(FileBytes(rd_file), rd_last.from), rd_last.count)

\* C5: on a chunked file with a split tree of any depth, a read of b - a
\* bytes at offset a, 0 <= a <= b <= size, returns the bytes [a, b) of the
\* leaves joined in offset order, also across chunks and sub-trees.
C5_ReadReturnsRange == RangeRead => rd_last.buf = BytesOfRange

\* C5 witness: after seek(a), a read that starts inside a sub-tree, past
\* its first byte, and ends in the entry after it, returning those bytes
C5_Witness ==
    /\ RangeRead
    /\ rd_last.prev = "seek"
    /\ rd_last.buf = BytesOfRange
    /\ \E i \in 1..(Len(rd_file.tree) - 1) :
          /\ rd_file.tree[i].isdir
          /\ rd_last.from > rd_file.tree[i].ofs
          /\ rd_last.from < rd_file.tree[i + 1].ofs
          /\ rd_last.from + rd_last.count > rd_file.tree[i + 1].ofs

\* C13: a file's size() is the number of bytes that reading it from offset
\* 0 to the end returns; for a chunked file, size() (the offsets along the
\* rightmost path of the split tree plus the length of the last blob) is
\* the sum of the lengths of all leaves.
C13_SizeIsBytesRead ==
    /\ File_size(rd_file) = Len(FileBytes(rd_file))
    /\ (rd_last.from = 0 /\ rd_last.count >= File_size(rd_file)) =>
           Len(rd_last.buf) = File_size(rd_file)

\* a chunked file whose last entry is a sub-tree was read from 0 with a
\* count beyond its size, and size() bytes came back
C13_Witness ==
    /\ rd_file.isdir
    /\ rd_file.tree[Len(rd_file.tree)].isdir
    /\ Len(rd_file.tree) > 1
    /\ rd_last.from = 0
    /\ rd_last.count > File_size(rd_file)
    /\ Len(rd_last.buf) = File_size(rd_file)

Min(a, b) == IF a < b THEN a ELSE b

\* C14: after any sequence of seek and read calls 0 <= tell() <= size; a
\* seek leaves the offset at its argument clamped into [0, size]; a read
\* with count >= 0 returns exactly min(count, size - tell()) bytes, a read
\* with a negative count everything up to the end, and either advances
\* tell() by the number of bytes returned.
C14_OffsetInBounds ==
    LET size == File_size(rd_file)
    IN /\ 0 <= rd_ofs
       /\ rd_ofs <= size
       /\ (rd_last.prev = "seek" /\ rd_last.from = -1) =>
              rd_ofs = (IF rd_last.arg < 0 THEN 0
                        ELSE IF rd_last.arg > size THEN size
                        ELSE rd_last.arg)
       /\ rd_last.from >= 0 =>
              /\ rd_ofs = rd_last.from + Len(rd_last.buf)
              /\ rd_last.arg >= 0 =>
                     Len(rd_last.buf) = Min(rd_last.arg, size - rd_last.from)
              /\ rd_last.arg < 0 =>
                     rd_last.buf = Drop(FileBytes(rd_file), rd_last.from)

\* after a seek into the middle of a chunked file, a read asking for more
\* than is left came back short and left the offset at the end
C14_Witness ==
    /\ rd_file.isdir
    /\ rd_last.prev = "seek"
    /\ rd_last.from > 0
    /\ rd_last.from < File_size(rd_file)
    /\ rd_last.arg > File_size(rd_file) - rd_last.from
    /\ Len(rd_last.buf) = File_size(rd_file) - rd_last.from
    /\ rd_ofs = File_size(rd_file)

Returned(op) == vop = op /\ vpc = "done" /\ vresult = "node"

LastPart == path_parts(lresolve_path(vpath))[Len(path_parts(lresolve_path(vpath)))]

\* C15: lresolve(path) returns the entry its last segment names, a Symlink
\* included, without dereferencing it (no dereference at all when no
\* symlink stands before the last segment); a symlink followed by a further
\* segment, the '.' of a trailing '/' included, is dereferenced and the
\* walk goes on from its target, so that such a path never yields the
\* symlink; and whatever resolve(path) returns is not a Symlink.
C15_LstatSemantics ==
    /\ (Returned("lresolve") /\ LastPart \notin {".", ".."}) =>
           /\ NodeInfo[vnode].name = LastPart
           /\ vpath \in {<<"/", "a", "/", "b">>, <<"a", "/", "c">>,
                          <<"a", "/", "f">>}
                 => derefs = 0 /\ vnode = sub("/a", LastPart)
    /\ (Returned("lresolve") /\ vpath = <<"a", "/", "b", "/">>) =>
           /\ derefs >= 1
           /\ vnode \notin Symlinks
    /\ (Returned("lresolve") /\ vpath = <<"a", "/", "/", "b", "/", "f">>) =>
           /\ derefs >= 1
           /\ vnode = "/a/f"
    /\ Returned("resolve") => vnode \notin Symlinks

\* lresolve('/a/b') returned the symlink /a/b itself, whose target exists
C15_Witness ==
    /\ Returned("lresolve")
    /\ vpath = <<"/", "a", "/", "b">>
    /\ vnode = "/a/b"
    /\ target["/a/b"] = <<"f">>
    /\ derefs = 0

\* C16: try_resolve(path) returns the node lresolve(path) gave when, and
\* only when, dereferencing that node raised NoSuchFile; a NoSuchFile
\* raised while lresolve(path) walks the path goes to the caller, and so do
\* TooManySymlinks and every other exception wherever they are raised.
C16_TryResolveSwallowsFinal ==
    (vop = "try_resolve" /\ vpc = "done") =>
        /\ vraised = "none" => vresult = "node" /\ vnode \notin Symlinks
        /\ (vraised = "NoSuchFile" /\ vphase = 2) =>
               vresult = "node" /\ vnode = vfirst
        /\ (vraised = "NoSuchFile" /\ vphase = 1) => vresult = "NoSuchFile"
        /\ vraised \notin {"none", "NoSuchFile"} => vresult = vraised

\* try_resolve('/a/b') on a symlink whose target does not exist returned
\* the symlink
C16_Witness ==
    /\ vop = "try_resolve"
    /\ vpc = "done"
    /\ vpath = <<"/", "a", "/", "b">>
    /\ target["/a/b"] = <<"x">>
    /\ vraised = "NoSuchFile"
    /\ vresult = "node"
    /\ vnode = "/a/b"

\* C17: resolve is idempotent: when resolve(p) returned a node n, both
\* n.resolve('') and n.resolve('.') return, and return n.
C17_ResolveIdempotent ==
    (vagain # NoAgain /\ vpc = "done") =>
        /\ vresult = "node"
        /\ vnode = vagain.node

\* resolve('/a/b') went through the symlink /a/b to the file /a/f, and
\* resolve('.') asked of that file has returned
C17_Witness ==
    /\ vpc = "done"
    /\ vresult = "node"
    /\ vpath = <<"/", "a", "/", "b">>
    /\ target["/a/b"] = <<"f">>
    /\ vagain = [node |-> "/a/f", path |-> <<".">>]

\* C18: on every node, a Dir whose tree exposes no children included,
\* _mksubs() has run at most once since the node was made or last
\* released, whatever subs(), sub(name), metadata(), metadata_file() and
\* release() calls were made.
C18_MksubsOncePerRelease == dir.mksubs <= 1 /\ child.mksubs <= 1

\* the commits reachable from some ref
RefCommits ==
    UNION { Ancestry(cd_list_refs[i]) : i \in 1..Len(cd_list_refs) }

\* the CommitLists that hold commit c, each with the name c has in it
RecordedAt(c) ==
    { <<k, d>> \in UNION { {k} \X DOMAIN cd_subs[k] : k \in DOMAIN cd_subs } :
        cd_subs[k][d] = c }

\* C19: once CommitDir is expanded, every commit reachable from a ref is
\* recorded in exactly one CommitList, the one named by the first two hex
\* digits of its hash, under its other 38 digits, whatever the commit
\* graph (shared history, commits with several parents) and the refs.
C19_EveryCommitRecorded ==
    cd_pc = "done" =>
        \A c \in RefCommits :
            RecordedAt(c) = { << containername(commithex(c)),
                                 dirname(commithex(c)) >> }

\* every dereference() in progress has added one to _symrefs, which is
\* never above 101 and is 0 when no operation is running
SymrefsCounted ==
    /\ symrefs = Len(vstack)
    /\ symrefs <= MaxSymlinks + 1
    /\ vpc \in {"idle", "done"} => symrefs = 0

\* dereference() calls that end, by returning or by an exception, leave
\* _symrefs at the value the outermost of them was entered with; a call
\* entered with _symrefs above 100 raises TooManySymlinks; a call that
\* goes on adds one; no other step changes _symrefs
SymrefsStep ==
    /\ Len(vstack') < Len(vstack) =>
          symrefs' = vstack[Len(vstack') + 1].entry
    /\ Len(vstack') > Len(vstack) =>
          symrefs <= MaxSymlinks /\ symrefs' = symrefs + 1
    /\ Len(vstack') = Len(vstack) => symrefs' = symrefs
    /\ (/\ vpc = "lresolve"
        /\ NodeInfo[vnode].kind = "Symlink"
        /\ depth + 1 <= RecursionLimit
        /\ symrefs > MaxSymlinks) =>
          /\ vraised' = "TooManySymlinks"
          /\ symrefs' = vstack[1].entry

\* C21: every dereference() restores the process-wide counter: when it
\* returns or raises, _symrefs has the value it had at entry, so it is 0
\* whenever no dereference is in progress; a dereference entered with the
\* counter above 100 raises TooManySymlinks without adding to it, and the
\* counter never exceeds 101.
C21_SymrefsRestored == []SymrefsCounted /\ [][SymrefsStep]_vars

\* an operation ended with TooManySymlinks after 101 nested dereference()
\* calls, and the counter is back at 0
C21_Witness ==
    /\ vpc = "done"
    /\ vraised = "TooManySymlinks"
    /\ derefs > MaxSymlinks
    /\ symrefs = 0

\* the dereference() that just returned: its symlink and the node returned
DerefReturned == vpc = "value" /\ vstack # <<>>

\* the node dereference() returns is in the symlink's saved tree
ReturnedInside ==
    DerefReturned =>
        LET link == vstack[Len(vstack)].link
        IN link \in CommitSymlinks => fs_top(vnode) = fs_top(link)

\* dereference() starts an absolute target at the symlink's fs_top()
AbsoluteFromFsTop ==
    (/\ vpc = "lresolve"
     /\ Len(vstack') = Len(vstack) + 1
     /\ vnode \in CommitSymlinks
     /\ Head(target[vnode]) = "/") =>
        /\ vpc' = "lresolve"
        /\ vnode' = fs_top(vnode)
        /\ vnode' # top(vnode)

\* C25: dereference() of a symlink below a commit's Dir, whatever its
\* target (absolute or relative, with any number of ".." segments), either
\* raises or returns a node whose fs_top() is that commit's Dir, and an
\* absolute target is resolved from fs_top(), never from top().
C25_DereferenceStaysInside ==
    /\ []ReturnedInside
    /\ [][AbsoluteFromFsTop]_vars

ReadFailed(last) == last.prev \in {"failed init", "failed next"} /\ last.from = -1

\* the read that follows a failed read returns the bytes at its offset
ReadAfterFailure ==
    (rd_last.prev \in {"failed init", "failed next"} /\ rd_last.from >= 0) =>
        /\ rd_last.buf =
              Take(Drop(FileBytes(rd_file), rd_last.from), rd_last.count)
        /\ rd_ofs = rd_last.from + Len(rd_last.buf)

\* C22 as stated: when fetching data fails inside read(count), tell() is
\* unchanged and the cached chunk reader is discarded; the next read at
\* that offset returns the bytes that start there.
C22_ReaderDiscarded ==
    /\ []ReadAfterFailure
    /\ [][ReadFailed(rd_last') =>
             rd_ofs' = rd_ofs /\ rd_reader' = NoReader]_vars

\* C22 as amended: when fetching data fails inside read(count), tell() is
\* unchanged; the cached chunk reader is discarded when the failure is in
\* reading through it, and is left as it was, absent or standing at an
\* offset other than tell(), when the failure is in building a new one;
\* the next read at that offset builds a chunk reader and returns the
\* bytes that start there.
C22_ReaderResetOrStale ==
    /\ []ReadAfterFailure
    /\ [][ReadFailed(rd_last') =>
             /\ rd_ofs' = rd_ofs
             /\ rd_last'.prev = "failed next" => rd_reader' = NoReader
             /\ rd_last'.prev = "failed init" => rd_reader' = rd_reader
             /\ reader_needed(rd_reader', rd_ofs')]_vars

\* a read of a chunked file failed at the second chunk it wanted, and the
\* read after it returned the bytes from the same offset on
C22_Witness ==
    /\ rd_file.isdir
    /\ rd_last.prev = "failed next"
    /\ rd_last.from > 0
    /\ Len(rd_last.buf) > 1
    /\ rd_last.buf =
          Take(Drop(FileBytes(rd_file), rd_last.from), rd_last.count)
=============================================================================
